---------------------------- MODULE Spec2Model ----------------------------
(***************************************************************************)
(* Model of satchip's MajorTomGrid (src/src/satchip/major_tom_grid.py):    *)
(* the row/column partitioners, the cell table built by __init__, the      *)
(* lookups latlon2rowcol / rowcol2latlon, get_bounded_footprint and the    *)
(* module-level get_utm_zone_from_latlng.                                  *)
(*                                                                         *)
(* Numbers.  The code computes in IEEE doubles.  The model computes in     *)
(* fixed point: angles in degrees are integers counting 1/DEG degree,      *)
(* radians and cosines are integers counting 1/FX, lengths are metres.     *)
(* Python sequences are 0-based; TLA+ sequences are 1-based, and every     *)
(* index the code stores (row_idx, col_idx, searchsorted results) is kept  *)
(* 0-based and converted where a sequence is read (PyAt).                  *)
(***************************************************************************)
EXTENDS Integers, Sequences, FiniteSets, TLC

VARIABLES
    pc,               \* "new" | "built" | "failed" | "returned" | "raised"
    dist,             \* self.dist (km)
    latitude_range,   \* self.latitude_range  <<min, max>>
    longitude_range,  \* self.longitude_range <<min, max>>
    utm_definition,   \* self.utm_definition
    rows,             \* self.rows: row labels, south to north
    lats,             \* self.lats: row latitudes
    points,           \* self.points: pd.concat(points_by_row), index not reset
    points_by_row,    \* self.points_by_row: one cell table per retained row
    op,               \* the call in progress / last call and its arguments
    result            \* what the call returned, or the error it raised

vars == <<pc, dist, latitude_range, longitude_range, utm_definition,
          rows, lats, points, points_by_row, op, result>>

---------------------------------------------------------------------------
(* Fixed-point representation of the code's floats *)

\* units per degree
DEG == 1000
\* units per 1.0 for radians and cosines
FX == 10000
\* math.pi
PI_FX == 31416
\* class constant RADIUS_EQUATOR = 6378.137 km, here in metres
RADIUS_EQUATOR == 6378137

Abs(x) == IF x < 0 THEN -x ELSE x

\* F applied to the value of v: v is evaluated once, where LET would
\* re-evaluate its definition at every use
Bind(v, F(_)) == CHOOSE y \in {F(x) : x \in {v}} : TRUE

Min(a, b) == IF a <= b THEN a ELSE b

\* math.ceil(a / b) for a >= 0, b > 0
CeilDiv(a, b) == (a + b - 1) \div b

\* lat * math.pi / 180  (3927/22500 = PI_FX/(180*DEG), reduced by 8 to stay
\* inside 32 bits)
Radians(lat) == (lat * 3927) \div 22500

\* Taylor polynomial of cos on [0, pi/2], Horner form, fixed point
CosTerm(x2, k, t) == FX - (x2 * t) \div (k * FX)

CosPoly(x) ==
    Bind((x * x) \div FX,
         LAMBDA x2 : CosTerm(x2, 2, CosTerm(x2, 12, CosTerm(x2, 30,
                         CosTerm(x2, 56, CosTerm(x2, 90, FX))))))

\* math.cos(x) for |x| <= 2 pi.  A double is never an exact odd multiple of
\* pi/2, so math.cos never returns 0: math.cos(math.pi / 2) = 6.1e-17 > 0.
\* The smallest fixed-point magnitude stands for such values.
CosPositive(v) == Bind(CosPoly(v), LAMBDA c : IF c <= 0 THEN 1 ELSE c)

MathCos(x) ==
    Bind(Abs(x),
         LAMBDA a : IF a <= PI_FX \div 2 THEN CosPositive(a)
                    ELSE IF a <= PI_FX THEN -CosPositive(PI_FX - a)
                    ELSE IF a <= PI_FX + PI_FX \div 2 THEN -CosPositive(a - PI_FX)
                    ELSE CosPositive(2 * PI_FX - a))

---------------------------------------------------------------------------
(* Python / numpy helpers *)

\* seq[i] with Python's index rule: 0-based, negative indices count from
\* the end.  Defined for -Len(seq) <= i < Len(seq) (IndexError otherwise).
PyInBounds(seq, i) == -Len(seq) <= i /\ i < Len(seq)

PyAt(seq, i) == IF i >= 0 THEN seq[i + 1] ELSE seq[Len(seq) + i + 1]

\* np.linspace(start, stop, num)[:-1]: num - 1 samples start + i * step
LinspaceOpen(start, stop, num) ==
    [i \in 1..(num - 1) |-> start + ((i - 1) * (stop - start)) \div (num - 1)]

\* np.mod(a, m) - shift, elementwise
NpMod(a, m, shift) == [i \in 1..Len(a) |-> (a[i] % m) - shift]

\* np.sort of a float array
NpSort(a) == SortSeq(a, LAMBDA x, y : x < y)

\* np.searchsorted(a, v) with the default side='left': the number of
\* elements strictly below v, i.e. the first index i with a[i] >= v
SearchSorted(a, v) == Cardinality({i \in 1..Len(a) : a[i] < v})

\* a[mask] for a boolean mask: the elements at the selected positions, in order
RECURSIVE Select(_, _, _)
Select(a, keep, i) ==
    IF i > Len(a) THEN <<>>
    ELSE (IF keep[i] THEN <<a[i]>> ELSE <<>>) \o Select(a, keep, i + 1)

\* str(n) for n >= 0 as a sequence of characters
DigitChar == <<"0", "1", "2", "3", "4", "5", "6", "7", "8", "9">>

RECURSIVE Str(_)
Str(n) == IF n < 10 THEN <<DigitChar[n + 1]>>
          ELSE Str(n \div 10) \o <<DigitChar[(n % 10) + 1]>>

---------------------------------------------------------------------------
(* Row partitioner: MajorTomGrid.get_rows *)

\* faulty variant of AllLatitudes: the np.sort call is left out
AllLatitudesUnsorted(d) ==
    LET arc_pole_to_pole == (PI_FX * (RADIUS_EQUATOR \div 100)) \div 100
        num_divisions_in_hemisphere == CeilDiv(arc_pole_to_pole, d * 1000)
    IN  NpMod(LinspaceOpen(-90 * DEG, 90 * DEG, num_divisions_in_hemisphere + 1),
              180 * DEG, 90 * DEG)

\* latitudes, sorted south to north, before the range filter
AllLatitudes(d) ==
    LET arc_pole_to_pole == (PI_FX * (RADIUS_EQUATOR \div 100)) \div 100
        num_divisions_in_hemisphere == CeilDiv(arc_pole_to_pole, d * 1000)
    IN  NpSort(NpMod(LinspaceOpen(-90 * DEG, 90 * DEG, num_divisions_in_hemisphere + 1),
                     180 * DEG, 90 * DEG))

\* faulty variant of RowLabel: the rows south of the origin count from 0D
RowLabelZeroD(i, zeroth_row) ==
    IF i >= zeroth_row THEN Str(i - zeroth_row) \o <<"U">>
    ELSE Str(Abs(i - zeroth_row) - 1) \o <<"D">>

\* the label of the row at 0-based position i of the sorted ladder
RowLabel(i, zeroth_row) ==
    IF i >= zeroth_row THEN Str(i - zeroth_row) \o <<"U">>
    ELSE Str(Abs(i - zeroth_row)) \o <<"D">>

\* the labels of the whole ladder: 0U..NU from the first latitude >= 0
\* northwards, 1D..ND southwards
RowLabels(latitudes) ==
    Bind(SearchSorted(latitudes, 0),
         LAMBDA zeroth_row : [i \in 1..Len(latitudes) |-> RowLabel(i - 1, zeroth_row)])

\* both arrays indexed by the same boolean mask
SelectBoth(labels, values, idxs) ==
    <<Select(labels, idxs, 1), Select(values, idxs, 1)>>

\* faulty variant of get_rows: the rows are labelled after the range filter
get_rows_label_after_filter(d, lat_range) ==
    Bind(AllLatitudes(d),
         LAMBDA latitudes :
            Bind(Select(latitudes,
                        [i \in 1..Len(latitudes) |->
                           latitudes[i] >= lat_range[1] /\ latitudes[i] <= lat_range[2]],
                        1),
                 LAMBDA kept : <<RowLabels(kept), kept>>))

\* get_rows: <<rows, latitudes>> bound to latitude_range
get_rows(d, lat_range) ==
    Bind(AllLatitudes(d),
         LAMBDA latitudes :
            SelectBoth(RowLabels(latitudes), latitudes,
                       [i \in 1..Len(latitudes) |->
                          latitudes[i] >= lat_range[1] /\ latitudes[i] <= lat_range[2]]))

---------------------------------------------------------------------------
(* Column partitioner: get_circumference_at_latitude,                      *)
(* subdivide_circumference, filter_longitude                               *)

\* circumference of the parallel at lat, metres
get_circumference_at_latitude(lat) ==
    LET radius_at_lat == ((RADIUS_EQUATOR \div 100) * MathCos(Radians(lat))) \div 100
    IN  2 * ((PI_FX * (radius_at_lat \div 100)) \div 100)

\* longitudes of the row at lat, sorted west to east, before the range filter
AllLongitudes(d, lat) ==
    LET circumference == get_circumference_at_latitude(lat)
        num_divisions == CeilDiv(circumference, d * 1000)
    IN  NpSort(NpMod(LinspaceOpen(-180 * DEG, 180 * DEG, num_divisions + 1),
                     360 * DEG, 180 * DEG))

\* faulty variant of ColLabel: columns west of longitude 0 get the suffix R
ColLabelNoSide(i, zeroth_idx) == Str(Abs(i - zeroth_idx)) \o <<"R">>

\* the label of the column at 0-based position i
ColLabel(i, zeroth_idx) ==
    IF i >= zeroth_idx THEN Str(i - zeroth_idx) \o <<"R">>
    ELSE Str(Abs(i - zeroth_idx)) \o <<"L">>

\* np.where(longitudes == 0)[0][0]: the first position holding exactly 0
ZerothIdx(longitudes) ==
    (CHOOSE i \in 1..Len(longitudes) :
        /\ longitudes[i] = 0
        /\ \A j \in 1..(i - 1) : longitudes[j] # 0) - 1

\* the labels of the whole row: 0R..NR from longitude 0 eastwards,
\* 1L..NL westwards
ColLabels(longitudes) ==
    Bind(ZerothIdx(longitudes),
         LAMBDA zeroth_idx : [i \in 1..Len(longitudes) |-> ColLabel(i - 1, zeroth_idx)])

\* subdivide_circumference(lat, return_cols=True): <<cols, longitudes>>
subdivide_circumference(d, lat) ==
    Bind(AllLongitudes(d, lat), LAMBDA longitudes : <<ColLabels(longitudes), longitudes>>)

\* faulty variant of filter_longitude: the upper bound is not applied
filter_longitude_min_only(cols, lons, lon_range) ==
    SelectBoth(cols, lons, [i \in 1..Len(lons) |-> lons[i] >= lon_range[1]])

\* filter_longitude: keep the columns inside longitude_range
filter_longitude(cols, lons, lon_range) ==
    SelectBoth(cols, lons,
               [i \in 1..Len(lons) |->
                  lons[i] >= lon_range[1] /\ lons[i] <= lon_range[2]])

---------------------------------------------------------------------------
(* get_utm_zone_from_latlng *)

DigitVal(c) == (CHOOSE i \in 1..10 : DigitChar[i] = c) - 1

\* f'{n:02d}' for n >= 0
Format02d(n) == IF n < 10 THEN <<"0">> \o Str(n) ELSE Str(n)

\* re.match(r'32[6-7](0[1-9]|[1-5][0-9]|60)', s): anchored at the start only
EpsgPatternMatches(s) ==
    /\ Len(s) >= 5
    /\ s[1] = "3"
    /\ s[2] = "2"
    /\ s[3] \in {"6", "7"}
    /\ \/ s[4] = "0" /\ s[5] \in {"1", "2", "3", "4", "5", "6", "7", "8", "9"}
       \/ s[4] \in {"1", "2", "3", "4", "5"} /\ s[5] \in {DigitChar[i] : i \in 1..10}
       \/ s[4] = "6" /\ s[5] = "0"

\* int(s) for a string of decimal digits
RECURSIVE ParseInt(_)
ParseInt(s) ==
    IF Len(s) = 0 THEN 0
    ELSE 10 * ParseInt(SubSeq(s, 1, Len(s) - 1)) + DigitVal(s[Len(s)])

\* faulty variant of ZoneNumber: the formula is not reduced modulo 60
ZoneNumberNoWrap(latitude, longitude) ==
    LET zone_number == ((longitude + 180 * DEG) \div (6 * DEG)) + 1
    IN  IF latitude >= 56 * DEG /\ latitude < 64 * DEG
           /\ longitude >= 3 * DEG /\ longitude < 12 * DEG
        THEN 32
        ELSE IF latitude >= 72 * DEG /\ latitude < 84 * DEG
        THEN (IF longitude >= 0 /\ longitude < 9 * DEG THEN 31
              ELSE IF longitude >= 9 * DEG /\ longitude < 21 * DEG THEN 33
              ELSE IF longitude >= 21 * DEG /\ longitude < 33 * DEG THEN 35
              ELSE IF longitude >= 33 * DEG /\ longitude < 42 * DEG THEN 37
              ELSE zone_number)
        ELSE zone_number

\* faulty variant of ZoneNumber: the Norway band starts at latitude 55
ZoneNumberWideBand(latitude, longitude) ==
    LET zone_number == (((longitude + 180 * DEG) \div (6 * DEG)) % 60) + 1
    IN  IF latitude >= 55 * DEG /\ latitude < 64 * DEG
           /\ longitude >= 3 * DEG /\ longitude < 12 * DEG
        THEN 32
        ELSE IF latitude >= 72 * DEG /\ latitude < 84 * DEG
        THEN (IF longitude >= 0 /\ longitude < 9 * DEG THEN 31
              ELSE IF longitude >= 9 * DEG /\ longitude < 21 * DEG THEN 33
              ELSE IF longitude >= 21 * DEG /\ longitude < 33 * DEG THEN 35
              ELSE IF longitude >= 33 * DEG /\ longitude < 42 * DEG THEN 37
              ELSE zone_number)
        ELSE zone_number

\* the UTM zone number chosen for (latitude, longitude)
ZoneNumber(latitude, longitude) ==
    LET zone_number == (((longitude + 180 * DEG) \div (6 * DEG)) % 60) + 1
    IN  IF latitude >= 56 * DEG /\ latitude < 64 * DEG
           /\ longitude >= 3 * DEG /\ longitude < 12 * DEG
        THEN 32
        ELSE IF latitude >= 72 * DEG /\ latitude < 84 * DEG
        THEN (IF longitude >= 0 /\ longitude < 9 * DEG THEN 31
              ELSE IF longitude >= 9 * DEG /\ longitude < 21 * DEG THEN 33
              ELSE IF longitude >= 21 * DEG /\ longitude < 33 * DEG THEN 35
              ELSE IF longitude >= 33 * DEG /\ longitude < 42 * DEG THEN 37
              ELSE zone_number)
        ELSE zone_number

\* faulty variant of EpsgCode: the equator is put in the southern hemisphere
EpsgCodeEquatorSouth(latitude, zone_number) ==
    IF latitude <= 0 THEN <<"3", "2", "7">> \o Format02d(zone_number)
    ELSE <<"3", "2", "6">> \o Format02d(zone_number)

\* the EPSG code string built from the hemisphere and the zone number
EpsgCode(latitude, zone_number) ==
    IF latitude < 0 THEN <<"3", "2", "7">> \o Format02d(zone_number)
    ELSE <<"3", "2", "6">> \o Format02d(zone_number)

\* get_utm_zone_from_latlng([latitude, longitude]): the EPSG number, or the
\* ValueError raised when the code string fails the pattern
get_utm_zone_from_latlng(latitude, longitude) ==
    Bind(EpsgCode(latitude, ZoneNumber(latitude, longitude)),
         LAMBDA epsg_code :
            IF ~EpsgPatternMatches(epsg_code)
            THEN [ok |-> FALSE, error |-> "ValueError: out of bound latlng"]
            ELSE [ok |-> TRUE, value |-> ParseInt(epsg_code)])

---------------------------------------------------------------------------
(* Grid index: MajorTomGrid.get_points and __init__ *)

\* (1000 * dist / 2) / 111_120 degrees  (6250/1389 = 500*DEG/111120)
HalfDistDeg(d) == (d * 6250) \div 1389

\* the point whose UTM zone a cell gets, per utm_definition
UtmPoint(d, mode, lat, lon) ==
    IF mode = "bottomleft" THEN <<lat, lon>>
    ELSE Bind(lat + HalfDistDeg(d),
              LAMBDA center_lat :
                <<center_lat,
                  lon + (HalfDistDeg(d) * FX) \div MathCos(Radians(center_lat))>>)

KnownUtmDefinition(mode) == mode \in {"bottomleft", "center"}

\* the if / elif / else of the cell loop: the zone of the cell, or the
\* error raised
CellUtm(d, mode, lat, lon) ==
    IF ~KnownUtmDefinition(mode)
    THEN [ok |-> FALSE, error |-> "ValueError: Invalid utm_definition"]
    ELSE Bind(UtmPoint(d, mode, lat, lon),
              LAMBDA p : get_utm_zone_from_latlng(p[1], p[2]))

\* one pass of the cell loop: the row appended to the table, or the error
\* raised
Cell(d, mode, r, lat, r_idx, c, lon, c_idx) ==
    Bind(CellUtm(d, mode, lat, lon),
         LAMBDA utm :
            IF ~utm.ok THEN utm
            ELSE [ok |-> TRUE,
                  value |-> [name |-> r \o <<"_">> \o c,
                             row |-> r, col |-> c,
                             row_idx |-> r_idx, col_idx |-> c_idx,
                             utm_zone |-> utm.value,
                             epsg |-> <<"EPSG:">> \o Str(utm.value),
                             y |-> lat, x |-> lon,
                             index |-> c_idx]])

\* the filtered <<cols, lons>> of the row at latitude lat
RowColumns(d, lon_range, lat) ==
    Bind(subdivide_circumference(d, lat),
         LAMBDA sub : filter_longitude(sub[1], sub[2], lon_range))

\* the cell loop over one retained row: one outcome per column
RowFrame(d, lon_range, mode, r, lat, r_idx) ==
    Bind(RowColumns(d, lon_range, lat),
         LAMBDA cl : [c \in 1..Len(cl[1]) |->
                        Cell(d, mode, r, lat, r_idx, cl[1][c], cl[2][c], c - 1)])

\* pd.concat(frames): the rows of every frame in order, each keeping its
\* index inside its own frame (reset_index is commented out)
RECURSIVE PdConcat(_, _)
PdConcat(frames, i) ==
    IF i > Len(frames) THEN <<>> ELSE frames[i] \o PdConcat(frames, i + 1)

\* the outcome of the first pass of the cell loop that raised
FirstError(outcomes) ==
    outcomes[CHOOSE k \in 1..Len(outcomes) :
                /\ ~outcomes[k].ok
                /\ \A j \in 1..(k - 1) : outcomes[j].ok]

\* points_by_row: the GeoDataFrame of every retained row
PointsByRow(frames) ==
    [i \in 1..Len(frames) |-> [c \in 1..Len(frames[i]) |-> frames[i][c].value]]

\* <<points, points_by_row>>; pd.concat raises on an empty list
ConcatPoints(by_row) ==
    IF Len(by_row) = 0
    THEN [ok |-> FALSE, error |-> "ValueError: No objects to concatenate"]
    ELSE [ok |-> TRUE, value |-> <<PdConcat(by_row, 1), by_row>>]

\* what the row loop ends with, given the outcomes of every pass in order
GetPointsResult(frames, outcomes) ==
    IF \E k \in 1..Len(outcomes) : ~outcomes[k].ok
    THEN FirstError(outcomes)
    ELSE Bind(PointsByRow(frames), LAMBDA by_row : ConcatPoints(by_row))

GetPointsOutcome(frames) ==
    Bind(PdConcat(frames, 1), LAMBDA outcomes : GetPointsResult(frames, outcomes))

\* get_points: <<points, points_by_row>>, or the error raised
get_points(d, lon_range, mode, rs, ls) ==
    Bind([i \in 1..Len(rs) |-> RowFrame(d, lon_range, mode, rs[i], ls[i], i - 1)],
         LAMBDA frames : GetPointsOutcome(frames))

---------------------------------------------------------------------------
(* Lookups: latlon2rowcol, rowcol2latlon *)

IndexError == [ok |-> FALSE, error |-> "IndexError"]

\* the x (longitude) column of a cell table
GeometryX(frame) == [i \in 1..Len(frame) |-> frame[i].x]

\* rows = np.searchsorted(self.lats, lats) - 1, for one query latitude
RowPosition(lat) == SearchSorted(lats, lat) - 1

\* np.searchsorted(poss_points.geometry.x, lon) - 1, for one query longitude
ColPosition(poss_points, lon) == SearchSorted(GeometryX(poss_points), lon) - 1

\* faulty variant of DecodeLabel: the sign of D / L labels is dropped
DecodeLabelUnsigned(el, positive) == ParseInt(SubSeq(el, 1, Len(el) - 1))

\* int(el[:-1]) if el[-1] == positive else -int(el[:-1])
DecodeLabel(el, positive) ==
    IF el[Len(el)] = positive THEN ParseInt(SubSeq(el, 1, Len(el) - 1))
    ELSE -ParseInt(SubSeq(el, 1, Len(el) - 1))

\* faulty variant of PointsMatching: the column label is not compared
PointsMatchingRowOnly(row, col) ==
    {i \in 1..Len(points) : points[i].row = row}

\* the positions selected by (self.points.row == row) & (self.points.col == col)
PointsMatching(row, col) ==
    {i \in 1..Len(points) : points[i].row = row /\ points[i].col = col}

\* self.points[...].values[0] / .index.values[0]: the first selected row
FirstMatching(row, col) ==
    LET hits == PointsMatching(row, col)
    IN  points[CHOOSE i \in hits : \A j \in hits : i <= j]

\* latlon2rowcol(lats, lons, return_idx, integer).  self.points_by_row is a
\* Python list and self.rows a numpy array: both accept the position -1 and
\* read their last element; .iloc[-1] reads the last row of a frame and
\* raises IndexError on an empty frame.
latlon2rowcol(qlats, qlons, return_idx, integer) ==
    LET n == Min(Len(qlats), Len(qlons))
        row_pos == [i \in 1..Len(qlats) |-> RowPosition(qlats[i])]
        possible_points == [i \in 1..Len(qlats) |-> PyAt(points_by_row, row_pos[i])]
        col_pos == [i \in 1..n |-> ColPosition(possible_points[i], qlons[i])]
        raises == \/ \E i \in 1..Len(qlats) : ~PyInBounds(points_by_row, row_pos[i])
                  \/ \E i \in 1..n : ~PyInBounds(possible_points[i], col_pos[i])
        cols_out == [i \in 1..n |-> PyAt(possible_points[i], col_pos[i]).col]
        rows_out == [i \in 1..Len(qlats) |-> PyAt(rows, row_pos[i])]
        idx == [i \in 1..n |-> FirstMatching(rows_out[i], cols_out[i]).index]
        out0 == IF integer
                THEN [i \in 1..Len(rows_out) |-> DecodeLabel(rows_out[i], "U")]
                ELSE rows_out
        out1 == IF integer
                THEN [i \in 1..n |-> DecodeLabel(cols_out[i], "R")]
                ELSE cols_out
    IN  IF raises THEN IndexError
        ELSE [ok |-> TRUE,
              value |-> IF return_idx THEN <<out0, out1, idx>> ELSE <<out0, out1>>]

\* rowcol2latlon(rows, cols): <<lats, lons>> of the stored anchors;
\* .values[0] of an empty selection raises IndexError
rowcol2latlon(qrows, qcols) ==
    LET n == Min(Len(qrows), Len(qcols))
        raises == \E i \in 1..n : PointsMatching(qrows[i], qcols[i]) = {}
        point_geoms == [i \in 1..n |-> FirstMatching(qrows[i], qcols[i])]
    IN  IF raises THEN IndexError
        ELSE [ok |-> TRUE,
              value |-> <<[i \in 1..n |-> point_geoms[i].y],
                          [i \in 1..n |-> point_geoms[i].x]>>]

---------------------------------------------------------------------------
(* Footprint builder: get_bounded_footprint *)

\* faulty variant of FootprintTop: the top row is tested with > instead of >=
FootprintTopStrict(point) ==
    LET row_idx == point.row_idx
        next_row_idx == row_idx + 1
    IN  IF next_row_idx > Len(lats)
        THEN (IF PyInBounds(lats, row_idx) /\ PyInBounds(lats, row_idx - 1)
              THEN (LET height == PyAt(lats, row_idx) - PyAt(lats, row_idx - 1)
                    IN  [ok |-> TRUE, value |-> PyAt(lats, row_idx) + height])
              ELSE IndexError)
        ELSE (IF PyInBounds(lats, next_row_idx)
              THEN [ok |-> TRUE, value |-> PyAt(lats, next_row_idx)]
              ELSE IndexError)

\* the top edge before buffering.  self.lats is a numpy array: at
\* row_idx = 0 the position row_idx - 1 = -1 reads the last latitude.
FootprintTop(point) ==
    LET row_idx == point.row_idx
        next_row_idx == row_idx + 1
    IN  IF next_row_idx >= Len(lats)
        THEN (IF PyInBounds(lats, row_idx) /\ PyInBounds(lats, row_idx - 1)
              THEN (LET height == PyAt(lats, row_idx) - PyAt(lats, row_idx - 1)
                    IN  [ok |-> TRUE, value |-> PyAt(lats, row_idx) + height])
              ELSE IndexError)
        ELSE (IF PyInBounds(lats, next_row_idx)
              THEN [ok |-> TRUE, value |-> PyAt(lats, next_row_idx)]
              ELSE IndexError)

\* the right edge before buffering; .iloc[col_idx - 1] at col_idx = 0 reads
\* the last cell of the row
FootprintRight(point) ==
    LET row_idx == point.row_idx
        col_idx == point.col_idx
        next_col_idx == col_idx + 1
        frame == PyAt(points_by_row, row_idx)
        max_col == Len(frame) - 1
    IN  IF ~PyInBounds(points_by_row, row_idx) THEN IndexError
        ELSE IF next_col_idx > max_col
        THEN (IF PyInBounds(frame, col_idx) /\ PyInBounds(frame, col_idx - 1)
              THEN (LET width == PyAt(frame, col_idx).x - PyAt(frame, col_idx - 1).x
                    IN  [ok |-> TRUE, value |-> PyAt(frame, col_idx).x + width])
              ELSE IndexError)
        ELSE (IF PyInBounds(frame, next_col_idx)
              THEN [ok |-> TRUE, value |-> PyAt(frame, next_col_idx).x]
              ELSE IndexError)

\* get_bounded_footprint(point, buffer_ratio), buffer_ratio in percent:
\* the four vertices (x, y) of the polygon
get_bounded_footprint(point, buffer_ratio) ==
    LET bottom == point.y
        left == point.x
        top == FootprintTop(point)
        right == FootprintRight(point)
        width == right.value - left
        height == top.value - bottom
        buffer_horizontal == (width * buffer_ratio) \div 100
        buffer_vertical == (height * buffer_ratio) \div 100
        new_left == left - buffer_horizontal
        new_right == right.value + buffer_horizontal
        new_bottom == bottom - buffer_vertical
        new_top == top.value + buffer_vertical
    IN  IF ~top.ok \/ ~right.ok THEN IndexError
        ELSE [ok |-> TRUE,
              value |-> <<<<new_left, new_bottom>>, <<new_left, new_top>>,
                          <<new_right, new_top>>, <<new_right, new_bottom>>>>]

---------------------------------------------------------------------------
(* Inputs *)

\* grid spacings, km: 1, 3 and 4 rows pole to pole
Dists == {25000, 7000, 6000}

\* latitude ranges: the default, the whole sphere, one narrow band around
\* the equator, a northern band, an inverted range
LatRanges == {<<-85 * DEG, 85 * DEG>>, <<-90 * DEG, 90 * DEG>>,
              <<-20 * DEG, 20 * DEG>>, <<10 * DEG, 80 * DEG>>,
              <<50 * DEG, -50 * DEG>>}

\* longitude ranges: the default, two bands, a band without longitude 0,
\* an inverted range
LonRanges == {<<-180 * DEG, 180 * DEG>>, <<-100 * DEG, 130 * DEG>>,
              <<-30 * DEG, 50 * DEG>>, <<10 * DEG, 80 * DEG>>,
              <<20 * DEG, -20 * DEG>>}

UtmDefinitions == {"bottomleft", "center", "topright"}

\* query points: QLatN + 1 latitudes over [-90, 90], QLonN + 1 longitudes
\* over [-180, 180]
QLatN == 8
QLonN == 8

QLats == {-90 * DEG + (i * 180 * DEG) \div QLatN : i \in 0..QLatN}

QLons == {-180 * DEG + (i * 360 * DEG) \div QLonN : i \in 0..QLonN}

\* labels asked of rowcol2latlon: offsets 0..MaxLabel in either direction
MaxLabel == 2

QRowLabels == {Str(k) \o <<s>> : k \in 0..MaxLabel, s \in {"U", "D"}}

QColLabels == {Str(k) \o <<s>> : k \in 0..MaxLabel, s \in {"R", "L"}}

\* buffer ratios, percent
BufferRatios == {0, 25}

\* arguments of get_utm_zone_from_latlng: a lattice, the band edges of the
\* zone exceptions and the points of tests/test_grid.py
ULatN == 12
ULonN == 60

UtmLats == {-90 * DEG + (i * 180 * DEG) \div ULatN : i \in 0..ULatN}
           \cup {-36000, -34000, -1000, -1, 48000, 55900, 55999, 56000, 60000,
                 63999, 64000, 71999, 72000, 75000, 78000, 83999, 84000}

UtmLons == {-180 * DEG + (i * 360 * DEG) \div ULonN : i \in 0..ULonN}
           \cup {-174340, -4000, -1, 2999, 3000, 4000, 5000, 7000, 8999, 9000,
                 10000, 11999, 13000, 15000, 19700, 20999, 21000, 32999, 33000,
                 41999, 42000, 175700, 179999}

---------------------------------------------------------------------------
(* The state machine *)

NoCall == [name |-> "none"]

NoResult == [ok |-> TRUE, value |-> <<>>]

Init ==
    /\ pc = "new"
    /\ dist = 0
    /\ latitude_range = <<>>
    /\ longitude_range = <<>>
    /\ utm_definition = ""
    /\ rows = <<>>
    /\ lats = <<>>
    /\ points = <<>>
    /\ points_by_row = <<>>
    /\ op = NoCall
    /\ result = NoResult

\* MajorTomGrid(dist, latitude_range, longitude_range, utm_definition):
\* __init__ stores the parameters, runs get_rows, then get_points
MajorTomGrid(d, lat_range, lon_range, mode) ==
    /\ pc = "new"
    /\ dist' = d
    /\ latitude_range' = lat_range
    /\ longitude_range' = lon_range
    /\ utm_definition' = mode
    /\ op' = [name |-> "__init__"]
    /\ \E rl \in {get_rows(d, lat_range)} :
        /\ rows' = rl[1]
        /\ lats' = rl[2]
        /\ \E pts \in {get_points(d, lon_range, mode, rl[1], rl[2])} :
            IF pts.ok
            THEN /\ pc' = "built"
                 /\ points' = pts.value[1]
                 /\ points_by_row' = pts.value[2]
                 /\ result' = NoResult
            ELSE /\ pc' = "failed"
                 /\ points' = <<>>
                 /\ points_by_row' = <<>>
                 /\ result' = pts

Grid == <<dist, latitude_range, longitude_range, utm_definition,
          rows, lats, points, points_by_row>>

\* a call on the built grid returns or raises; the grid is only read
Finish(call, res) ==
    /\ pc = "built"
    /\ op' = call
    /\ result' = res
    /\ pc' = IF res.ok THEN "returned" ELSE "raised"
    /\ UNCHANGED Grid

CallLatlon2rowcol(qlats, qlons, return_idx, integer) ==
    Finish([name |-> "latlon2rowcol", lats |-> qlats, lons |-> qlons,
            return_idx |-> return_idx, integer |-> integer],
           latlon2rowcol(qlats, qlons, return_idx, integer))

CallRowcol2latlon(qrows, qcols) ==
    Finish([name |-> "rowcol2latlon", rows |-> qrows, cols |-> qcols],
           rowcol2latlon(qrows, qcols))

CallGetBoundedFootprint(point, buffer_ratio) ==
    Finish([name |-> "get_bounded_footprint", point |-> point,
            buffer_ratio |-> buffer_ratio],
           get_bounded_footprint(point, buffer_ratio))

\* the caller takes the result (or handles the error) and may call again
Done ==
    /\ pc \in {"returned", "raised"}
    /\ pc' = "built"
    /\ op' = NoCall
    /\ result' = NoResult
    /\ UNCHANGED Grid

Next ==
    \/ \E d \in Dists, lat_range \in LatRanges, lon_range \in LonRanges,
          mode \in UtmDefinitions :
            MajorTomGrid(d, lat_range, lon_range, mode)
    \/ \E lat \in QLats, lon \in QLons, return_idx \in BOOLEAN, integer \in BOOLEAN :
            CallLatlon2rowcol(<<lat>>, <<lon>>, return_idx, integer)
    \/ \E row \in QRowLabels, col \in QColLabels :
            CallRowcol2latlon(<<row>>, <<col>>)
    \/ \E i \in 1..Len(points), buffer_ratio \in BufferRatios :
            CallGetBoundedFootprint(points[i], buffer_ratio)
    \/ Done

Spec == Init /\ [][Next]_vars

\* get_utm_zone_from_latlng is a module-level pure function: it is checked
\* on its own, the argument drawn by the initial state
InitUtm ==
    /\ pc = "new"
    /\ dist = 0
    /\ latitude_range = <<>>
    /\ longitude_range = <<>>
    /\ utm_definition = ""
    /\ rows = <<>>
    /\ lats = <<>>
    /\ points = <<>>
    /\ points_by_row = <<>>
    /\ \E lat \in UtmLats, lon \in UtmLons :
          op = [name |-> "get_utm_zone_from_latlng", latlng |-> <<lat, lon>>]
    /\ result = NoResult

CallGetUtmZone ==
    LET res == get_utm_zone_from_latlng(op.latlng[1], op.latlng[2])
    IN  /\ pc = "new"
        /\ op.name = "get_utm_zone_from_latlng"
        /\ result' = res
        /\ pc' = IF res.ok THEN "returned" ELSE "raised"
        /\ UNCHANGED <<op, dist, latitude_range, longitude_range, utm_definition,
                       rows, lats, points, points_by_row>>

NextUtm == CallGetUtmZone

SpecUtm == InitUtm /\ [][NextUtm]_vars

---------------------------------------------------------------------------
(* Properties *)

\* a grid exists: the constructor returned
Built == pc \in {"built", "returned", "raised"}

\* the call `name` has just returned or raised
Called(name) == pc \in {"returned", "raised"} /\ op.name = name

\* the retained rows at or south of lat, and the northernmost of them
RowsAtOrBelow(lat) == {i \in 1..Len(lats) : lats[i] <= lat}

GreatestRowAtOrBelow(lat) ==
    CHOOSE i \in RowsAtOrBelow(lat) : \A j \in RowsAtOrBelow(lat) : lats[j] <= lats[i]

\* the columns of row r at or west of lon, and the easternmost of them
ColsAtOrBelow(r, lon) ==
    {c \in 1..Len(points_by_row[r]) : points_by_row[r][c].x <= lon}

GreatestColAtOrBelow(r, lon) ==
    CHOOSE c \in ColsAtOrBelow(r, lon) :
        \A k \in ColsAtOrBelow(r, lon) : points_by_row[r][k].x <= points_by_row[r][c].x

\* the query lies inside the retained extent: a row at or south of it
\* exists, and in that row a column at or west of it
InExtent(lat, lon) ==
    /\ RowsAtOrBelow(lat) # {}
    /\ ColsAtOrBelow(GreatestRowAtOrBelow(lat), lon) # {}

\* C1: latlon2rowcol assigns every query point inside the retained extent
\* to the row with the greatest row latitude <= lat and, in that row, to the
\* column with the greatest longitude <= lon (floor semantics: a query on a
\* row latitude or a column longitude belongs to that row / column).
C1_FloorSemantics ==
    (Called("latlon2rowcol") /\ ~op.integer) =>
        LET lat == op.lats[1]
            lon == op.lons[1]
        IN  InExtent(lat, lon) =>
                LET r == GreatestRowAtOrBelow(lat)
                    c == GreatestColAtOrBelow(r, lon)
                IN  /\ result.ok
                    /\ result.value[1][1] = rows[r]
                    /\ result.value[2][1] = points_by_row[r][c].col

\* C2: latlon2rowcol called with a point outside the retained extent (south
\* of the lowest retained row, or west of the lowest retained column of its
\* row) raises; it never returns a cell for such a point.
C2_OutOfExtentRaises ==
    Called("latlon2rowcol") =>
        (~InExtent(op.lats[1], op.lons[1]) => pc = "raised")

\* (lon, lat) lies in the closed rectangle of the polygon
\* <<(left, bottom), (left, top), (right, top), (right, bottom)>>
Contains(poly, lat, lon) ==
    /\ poly[1][1] <= lon /\ lon <= poly[3][1]
    /\ poly[1][2] <= lat /\ lat <= poly[3][2]

InConfiguredRange(lat, lon) ==
    /\ latitude_range[1] <= lat /\ lat <= latitude_range[2]
    /\ longitude_range[1] <= lon /\ lon <= longitude_range[2]

OnBoundary(lat, lon) ==
    \/ \E i \in 1..Len(lats) : lats[i] = lat
    \/ \E i \in 1..Len(points) : points[i].x = lon

\* C3: for every query point inside the configured latitude_range and
\* longitude_range that is on no row latitude and no column longitude,
\* rowcol2latlon(latlon2rowcol(lat, lon)) returns the anchor of a cell whose
\* buffer-0 footprint contains the point.
C3_RoundTripContains ==
    (Called("latlon2rowcol") /\ ~op.integer) =>
        LET lat == op.lats[1]
            lon == op.lons[1]
        IN  (InConfiguredRange(lat, lon) /\ ~OnBoundary(lat, lon)) =>
                /\ result.ok
                /\ LET back == rowcol2latlon(result.value[1], result.value[2])
                   IN  /\ back.ok
                       /\ \E i \in 1..Len(points) :
                            /\ points[i].y = back.value[1][1]
                            /\ points[i].x = back.value[2][1]
                            /\ get_bounded_footprint(points[i], 0).ok
                            /\ Contains(get_bounded_footprint(points[i], 0).value, lat, lon)

\* the value get_utm_zone_from_latlng is claimed to return
ClaimedZone(lat, lon) ==
    IF 56 * DEG <= lat /\ lat < 64 * DEG /\ 3 * DEG <= lon /\ lon < 12 * DEG THEN 32
    ELSE IF 72 * DEG <= lat /\ lat < 84 * DEG /\ 0 <= lon /\ lon < 9 * DEG THEN 31
    ELSE IF 72 * DEG <= lat /\ lat < 84 * DEG /\ 9 * DEG <= lon /\ lon < 21 * DEG THEN 33
    ELSE IF 72 * DEG <= lat /\ lat < 84 * DEG /\ 21 * DEG <= lon /\ lon < 33 * DEG THEN 35
    ELSE IF 72 * DEG <= lat /\ lat < 84 * DEG /\ 33 * DEG <= lon /\ lon < 42 * DEG THEN 37
    ELSE (((lon + 180 * DEG) \div (6 * DEG)) % 60) + 1

ClaimedEpsg(lat, lon) ==
    IF lat >= 0 THEN 32600 + ClaimedZone(lat, lon) ELSE 32700 + ClaimedZone(lat, lon)

\* the points of tests/test_grid.py with the codes the test expects
TestedPoints ==
    {<<-1000, -174340, 32701>>, <<48000, -4000, 32630>>, <<78000, 13000, 32633>>,
     <<-34000, 19700, 32734>>, <<-36000, 175700, 32760>>}

\* C4: for every latitude in [-90, 90] and longitude in [-180, 180],
\* get_utm_zone_from_latlng returns 32600 + zone for latitude >= 0 and
\* 32700 + zone for latitude < 0, zone being floor((lon + 180) / 6) mod 60 + 1
\* but for the Norway and Svalbard exceptions; the five tested points give
\* the tested codes.
C4_UtmZoneFormula ==
    Called("get_utm_zone_from_latlng") =>
        /\ result.ok
        /\ result.value = ClaimedEpsg(op.latlng[1], op.latlng[2])
        /\ \A t \in TestedPoints :
              (op.latlng = <<t[1], t[2]>>) => result.value = t[3]

\* C4 witness: the Svalbard point of the test has returned its code
C4_Witness ==
    /\ Called("get_utm_zone_from_latlng")
    /\ op.latlng = <<78000, 13000>>
    /\ result.ok
    /\ result.value = 32633

\* C5: for every valid pair get_utm_zone_from_latlng never raises its
\* invalid-EPSG error: the zone number is in 1..60 and the code returned is
\* in 32601..32660 or 32701..32760.
C5_UtmNeverRaises ==
    /\ op.name = "get_utm_zone_from_latlng" => pc # "raised"
    /\ Called("get_utm_zone_from_latlng") =>
          /\ ZoneNumber(op.latlng[1], op.latlng[2]) \in 1..60
          /\ result.ok
          /\ result.value \in (32601..32660) \cup (32701..32760)

\* C5 witness: the call at longitude 180, where the formula wraps to zone 1,
\* has returned
C5_Witness ==
    /\ Called("get_utm_zone_from_latlng")
    /\ op.latlng[2] = 180 * DEG
    /\ result.ok
    /\ result.value \in {32601, 32701}

Inverted(range) == range[1] > range[2]

\* C6: constructing a MajorTomGrid fails whenever latitude_range or
\* longitude_range is inverted or a retained row is left with no column:
\* no grid exists with such a range or such a row.
C6_BadRangeFailsBuild ==
    Built =>
        /\ ~Inverted(latitude_range)
        /\ ~Inverted(longitude_range)
        /\ \A r \in 1..Len(points_by_row) : Len(points_by_row[r]) > 0

\* C7: constructing a MajorTomGrid with an unknown utm_definition always
\* fails, for every spacing and range: no grid exists with an unknown mode.
C7_UnknownModeFailsBuild ==
    (pc # "new" /\ utm_definition \notin {"bottomleft", "center"}) => pc = "failed"

\* C8: get_bounded_footprint with buffer 0 never raises; the polygon is the
\* rectangle whose bottom-left corner is the cell's anchor, whose top is the
\* next retained row north (for the northernmost row: the latitude plus the
\* gap to the row south of it) and whose right edge is the next column east
\* (for the easternmost cell: the longitude plus the gap to the column west).
C8_FootprintEdges ==
    (Called("get_bounded_footprint") /\ op.buffer_ratio = 0) =>
        LET r == op.point.row_idx + 1
            c == op.point.col_idx + 1
            frame == points_by_row[r]
            poly == result.value
            left == poly[1][1]
            bottom == poly[1][2]
            right == poly[3][1]
            top == poly[3][2]
        IN  /\ result.ok
            /\ poly = <<<<left, bottom>>, <<left, top>>, <<right, top>>, <<right, bottom>>>>
            /\ bottom = lats[r]
            /\ left = frame[c].x
            /\ r < Len(lats) => top = lats[r + 1]
            /\ (r = Len(lats) /\ r > 1) => top = lats[r] + (lats[r] - lats[r - 1])
            /\ c < Len(frame) => right = frame[c + 1].x
            /\ (c = Len(frame) /\ c > 1) => right = frame[c].x + (frame[c].x - frame[c - 1].x)

\* C8 witness: the footprint of the most northern, most eastern cell of a
\* grid with several rows and several columns in its top row was returned
C8_Witness ==
    /\ Called("get_bounded_footprint")
    /\ op.buffer_ratio = 0
    /\ result.ok
    /\ Len(lats) > 1
    /\ op.point.row_idx + 1 = Len(lats)
    /\ Len(points_by_row[Len(lats)]) > 1
    /\ op.point.col_idx + 1 = Len(points_by_row[Len(lats)])

\* C9: the retained row latitudes of a built grid are strictly increasing
\* south to north and lie within [lat_min, lat_max].
C9_RowsIncreasingInRange ==
    Built =>
        /\ \A i \in 1..Len(lats) :
              latitude_range[1] <= lats[i] /\ lats[i] <= latitude_range[2]
        /\ \A i, j \in 1..Len(lats) : i < j => lats[i] < lats[j]

\* C9 witness: a built grid that kept several rows and dropped others
C9_Witness ==
    /\ Built
    /\ Len(lats) >= 2
    /\ Len(lats) < Len(AllLatitudes(dist))

\* C10: in every built grid the cell longitudes of every retained row are
\* strictly increasing west to east and lie within [lon_min, lon_max].
C10_ColsIncreasingInRange ==
    Built =>
        \A r \in 1..Len(points_by_row) :
            LET frame == points_by_row[r]
            IN  /\ \A c \in 1..Len(frame) :
                      longitude_range[1] <= frame[c].x /\ frame[c].x <= longitude_range[2]
                /\ \A c, k \in 1..Len(frame) : c < k => frame[c].x < frame[k].x

\* C10 witness: a built grid with a row that kept several columns and
\* dropped others
C10_Witness ==
    /\ Built
    /\ \E r \in 1..Len(points_by_row) :
          /\ Len(points_by_row[r]) >= 2
          /\ Len(points_by_row[r]) < Len(AllLongitudes(dist, lats[r]))

\* C11: in every built grid no two distinct cells of the cell table share a
\* name, and no two share an anchor point.
C11_NamesUnique ==
    Built =>
        \A i, j \in 1..Len(points) :
            i # j => /\ points[i].name # points[j].name
                     /\ <<points[i].y, points[i].x>> # <<points[j].y, points[j].x>>

\* C11 witness: a built grid with rows north and south of the origin row and,
\* in one row, columns east and west of the origin column
C11_Witness ==
    /\ Built
    /\ \E i, j \in 1..Len(points) :
          /\ points[i].row = <<"1", "D">>
          /\ points[j].row = <<"1", "U">>
    /\ \E i, j \in 1..Len(points) :
          /\ points[i].row = points[j].row
          /\ points[i].col = <<"1", "L">>
          /\ points[j].col = <<"1", "R">>

\* the cells of the table carrying the label pair (row, col)
CellsLabelled(row, col) ==
    {i \in 1..Len(points) : points[i].row = row /\ points[i].col = col}

\* C12: rowcol2latlon returns, for a label pair that is a cell of the grid,
\* exactly the stored anchor (latitude, longitude) of that cell, and raises
\* when the pair is not a cell of the grid; it never returns the coordinates
\* of another cell or a default.
C12_RowColLookup ==
    Called("rowcol2latlon") =>
        LET cells == CellsLabelled(op.rows[1], op.cols[1])
        IN  IF cells = {}
            THEN pc = "raised" /\ result = IndexError
            ELSE /\ pc = "returned"
                 /\ \A i \in cells :
                       result.value = <<<<points[i].y>>, <<points[i].x>>>>

\* C12 witness: the anchor of the cell 1D_1R, south and east of the origin,
\* was returned
C12_Witness ==
    /\ Called("rowcol2latlon")
    /\ op.rows[1] = <<"1", "D">>
    /\ op.cols[1] = <<"1", "R">>
    /\ result.ok
    /\ result.value[1][1] < 0
    /\ result.value[2][1] > 0

\* re-encoding of a signed label number: n >= 0 -> 'nU' / 'nR',
\* n < 0 -> '|n|D' / '|n|L'
EncodeLabel(n, positive, negative) ==
    IF n >= 0 THEN Str(n) \o <<positive>> ELSE Str(-n) \o <<negative>>

\* C13: for every retained cell, decoding its row and column label as
\* latlon2rowcol does with integer=True and re-encoding the number gives the
\* label back; the numbers an integer=True call returns re-encode to the
\* labels the same call returns with integer=False.
C13_LabelRoundTrip ==
    /\ Built =>
          \A i \in 1..Len(points) :
              /\ EncodeLabel(DecodeLabel(points[i].row, "U"), "U", "D") = points[i].row
              /\ EncodeLabel(DecodeLabel(points[i].col, "R"), "R", "L") = points[i].col
    /\ (Called("latlon2rowcol") /\ op.integer /\ result.ok) =>
          LET plain == latlon2rowcol(op.lats, op.lons, FALSE, FALSE)
          IN  /\ plain.ok
              /\ <<EncodeLabel(result.value[1][1], "U", "D")>> = plain.value[1]
              /\ <<EncodeLabel(result.value[2][1], "R", "L")>> = plain.value[2]

\* C13 witness: an integer=True call returned a cell south and west of the
\* origin
C13_Witness ==
    /\ Called("latlon2rowcol")
    /\ op.integer
    /\ result.ok
    /\ result.value[1][1] < 0
    /\ result.value[2][1] < 0

\* the zone number inside a returned EPSG code
ZoneOf(epsg) == epsg % 100

\* floor((lon + 180) / 6) mod 60 + 1, the formula without the exceptions
UnmodifiedZone(lon) == (((lon + 180 * DEG) \div (6 * DEG)) % 60) + 1

\* the call get_utm_zone_from_latlng([lat, lon]) has returned zone
ZoneAt(lat, lon, zone) ==
    (Called("get_utm_zone_from_latlng") /\ op.latlng = <<lat, lon>>) =>
        result.ok /\ ZoneOf(result.value) = zone

\* C14 as stated: zone 32 at (60, 10), zone 31 at (75, 5), zone 33 at
\* (75, 15), and at (55.9, 7) the zone of the unmodified formula and not
\* zone 32.
C14_ExceptionBoundariesAsStated ==
    /\ ZoneAt(60 * DEG, 10 * DEG, 32)
    /\ ZoneAt(75 * DEG, 5 * DEG, 31)
    /\ ZoneAt(75 * DEG, 15 * DEG, 33)
    /\ ZoneAt(55900, 7 * DEG, UnmodifiedZone(7 * DEG))
    /\ (Called("get_utm_zone_from_latlng") /\ op.latlng = <<55900, 7 * DEG>>) =>
          ZoneOf(result.value) # 32

\* C14: zone 32 at (60, 10), zone 31 at (75, 5), zone 33 at (75, 15); at
\* (55.9, 7), just south of the Norway band, the zone of the unmodified
\* formula, which is 32 there too; at (55.9, 4), where the formula gives 31,
\* zone 31 and not the 32 the band gives at (56, 4).
C14_ExceptionBoundaries ==
    /\ ZoneAt(60 * DEG, 10 * DEG, 32)
    /\ ZoneAt(75 * DEG, 5 * DEG, 31)
    /\ ZoneAt(75 * DEG, 15 * DEG, 33)
    /\ ZoneAt(55900, 7 * DEG, UnmodifiedZone(7 * DEG))
    /\ UnmodifiedZone(7 * DEG) = 32
    /\ ZoneAt(55900, 4 * DEG, UnmodifiedZone(4 * DEG))
    /\ UnmodifiedZone(4 * DEG) = 31
    /\ ZoneAt(56 * DEG, 4 * DEG, 32)

\* C14 witness: the call at (55.9, 7) has returned the code of zone 32
C14_Witness ==
    /\ Called("get_utm_zone_from_latlng")
    /\ op.latlng = <<55900, 7 * DEG>>
    /\ result.ok
    /\ result.value = 32632

\* the cells of the table stored under the index label idx
CellsIndexed(idx) == {i \in 1..Len(points) : points[i].index = idx}

\* C15: latlon2rowcol with return_idx=True returns the flat table index of
\* the matched cell: the index identifies in self.points exactly the one
\* cell carrying the returned (row, col) labels.
C15_FlatIndex ==
    (Called("latlon2rowcol") /\ op.return_idx /\ ~op.integer /\ result.ok) =>
        /\ Cardinality(CellsIndexed(result.value[3][1])) = 1
        /\ CellsIndexed(result.value[3][1])
              = CellsLabelled(result.value[1][1], result.value[2][1])

\* the position in the sorted ladder of the first value >= 0
OriginOf(ladder) ==
    CHOOSE z \in 1..Len(ladder) :
        /\ ladder[z] >= 0
        /\ \A j \in 1..(z - 1) : ladder[j] < 0

\* the position of value v in the ladder
PositionOf(ladder, v) == CHOOSE p \in 1..Len(ladder) : ladder[p] = v

\* the label the claim gives the ladder position p when the origin is z
OriginLabel(p, z, positive, negative) ==
    IF p >= z THEN Str(p - z) \o <<positive>> ELSE Str(z - p) \o <<negative>>

\* C16: in the row ladder of the spacing, '0U' labels the first row whose
\* latitude is >= 0, 'kU' the row k rows north of it and 'kD' the row
\* k >= 1 rows south of it; in the ladder of every row, '0R' labels the
\* column at longitude 0, 'kR' the column k columns east of it and 'kL' the
\* column k >= 1 columns west of it; no '0D' and no '0L' exists.
C16_LabelOrigin ==
    Built =>
        \A r \in 1..Len(lats) :
            LET ladder == AllLatitudes(dist)
                columns == AllLongitudes(dist, lats[r])
            IN  /\ rows[r] = OriginLabel(PositionOf(ladder, lats[r]),
                                         OriginOf(ladder), "U", "D")
                /\ rows[r] # <<"0", "D">>
                /\ columns[OriginOf(columns)] = 0
                /\ \A c \in 1..Len(points_by_row[r]) :
                      /\ points_by_row[r][c].row = rows[r]
                      /\ points_by_row[r][c].col
                            = OriginLabel(PositionOf(columns, points_by_row[r][c].x),
                                          OriginOf(columns), "R", "L")
                      /\ points_by_row[r][c].col # <<"0", "L">>

\* C16 witness: a built grid that holds a row 2D, two rows south of the
\* origin, the cell 1D_1L, one row south and one column west of it, and the
\* cell 0U_0R at (0, 0)
C16_Witness ==
    /\ Built
    /\ \E r \in 1..Len(rows) : rows[r] = <<"2", "D">>
    /\ \E i \in 1..Len(points) : points[i].name = <<"1", "D", "_", "1", "L">>
    /\ \E i \in 1..Len(points) :
          /\ points[i].name = <<"0", "U", "_", "0", "R">>
          /\ points[i].y = 0
          /\ points[i].x = 0

\* the grid of spacing d and mode built over the whole sphere
FullRangeGrid(d, mode) ==
    Bind(get_rows(d, <<-90 * DEG, 90 * DEG>>),
         LAMBDA rl : get_points(d, <<-180 * DEG, 180 * DEG>>, mode, rl[1], rl[2]))

\* what a cell keeps across ranges: all but row_idx, col_idx and the index
StableFields(cell) ==
    [name |-> cell.name, row |-> cell.row, col |-> cell.col,
     y |-> cell.y, x |-> cell.x, utm_zone |-> cell.utm_zone, epsg |-> cell.epsg]

\* C17: for a fixed spacing and utm_definition, a built grid holds exactly
\* the cells of the full-range grid whose anchors lie inside its latitude
\* and longitude range, each once and with the same name, row label, column
\* label, anchor and EPSG as in the full-range grid.
C17_NamesStableAcrossRanges ==
    (Built /\ KnownUtmDefinition(utm_definition)) =>
        LET full == FullRangeGrid(dist, utm_definition)
            inside == {k \in 1..Len(full.value[1]) :
                          InConfiguredRange(full.value[1][k].y, full.value[1][k].x)}
        IN  /\ full.ok
            /\ {StableFields(points[i]) : i \in 1..Len(points)}
                  = {StableFields(full.value[1][k]) : k \in inside}
            /\ Len(points) = Cardinality(inside)

\* C17 witness: a built grid whose ranges dropped the origin row and the
\* westernmost column of a retained row, keeping several cells
C17_Witness ==
    /\ Built
    /\ KnownUtmDefinition(utm_definition)
    /\ Len(points) >= 2
    /\ \A r \in 1..Len(rows) : rows[r] # <<"0", "U">>
    /\ \E r \in 1..Len(rows) :
          /\ Len(points_by_row[r]) >= 2
          /\ points_by_row[r][1].x # AllLongitudes(dist, lats[r])[1]

\* C18: for every cell of every built grid, get_bounded_footprint with
\* buffer_ratio 0 returns a rectangle of strictly positive width and height
\* (right > left and top > bottom), also when the grid retains one row only
\* or a row retains one column only.
C18_FootprintPositive ==
    (Called("get_bounded_footprint") /\ op.buffer_ratio = 0) =>
        /\ result.ok
        /\ result.value[3][1] > result.value[1][1]
        /\ result.value[3][2] > result.value[1][2]

=============================================================================
